---- MODULE Spec2Model ----
(***************************************************************************)
(* Model of the EV charge scheduler (schedule.py, utils.py).               *)
(*                                                                         *)
(* An instant (datetime) is an integer number of ticks; a tick stands for  *)
(* one second, SecPerMin ticks make a minute and MinutesPerDay minutes a   *)
(* day.  A wall-clock "HH:MM" time is the index of a minute in the day     *)
(* (hour and minute taken together).  A period is a pair <<from, to>>, a   *)
(* timedelta is a (possibly negative) number of ticks.                     *)
(***************************************************************************)
EXTENDS Integers, Sequences, FiniteSets

\* Scale of the calendar and of the forecast series.
MinutesPerDay == 4
SecPerMin == 2
MaxRecLen == 2

\* timedelta(weeks=1)
DaysPerWeek == 7

DayTicks == MinutesPerDay * SecPerMin

shift_to_forecast == DaysPerWeek * DayTicks

null_timedelta == 0

WallClock == 0 .. (MinutesPerDay - 1)

Max(a, b) == IF a >= b THEN a ELSE b

Min(a, b) == IF a <= b THEN a ELSE b

(***************************************************************************)
(* utils.py                                                                *)
(***************************************************************************)

\* datetime.replace(hour=hour, minute=minute): the date, the second and the
\* microsecond of `current` are kept, only hour and minute are overwritten.
ReplaceHourMinute(current, time) ==
    (current \div DayTicks) * DayTicks + time * SecPerMin + (current % SecPerMin)

next_datetime_with_time(current, time) ==
    LET this_time_same_day == ReplaceHourMinute(current, time)
    IN  IF this_time_same_day <= current
        THEN this_time_same_day + DayTicks
        ELSE this_time_same_day

duration(period) == period[2] - period[1]

RECURSIVE total_duration(_)
total_duration(periods) ==
    IF periods = <<>> THEN 0
    ELSE duration(Head(periods)) + total_duration(Tail(periods))

\* timedelta(minutes=charge_time)
MinutesDelta(minutes) == minutes * SecPerMin

(***************************************************************************)
(* schedule.py: off_peak_and_peak_periods                                  *)
(***************************************************************************)
off_peak_and_peak_periods(plug, ready, ops, ope) ==
    LET next_off_peak_start == next_datetime_with_time(plug, ops)
        next_off_peak_end   == next_datetime_with_time(plug, ope)
    IN  IF next_off_peak_start = next_off_peak_end
        THEN << <<>>, << <<plug, ready>> >> >>
        ELSE IF next_off_peak_start < next_off_peak_end
        THEN IF next_off_peak_start < ready
             THEN IF next_off_peak_end < ready
                  THEN << << <<next_off_peak_start, next_off_peak_end>> >>,
                          << <<plug, next_off_peak_start>>,
                             <<next_off_peak_end, ready>> >> >>
                  ELSE << << <<next_off_peak_start, ready>> >>,
                          << <<plug, next_off_peak_start>> >> >>
             ELSE << <<>>, << <<plug, ready>> >> >>
        ELSE IF next_off_peak_start < ready
             THEN << << <<plug, next_off_peak_end>>,
                        <<next_off_peak_start, ready>> >>,
                     << <<next_off_peak_end, next_off_peak_start>> >> >>
             ELSE IF next_off_peak_end < ready
                  THEN << << <<plug, next_off_peak_end>> >>,
                          << <<next_off_peak_end, ready>> >> >>
                  ELSE << << <<plug, ready>> >>, << <<plug, ready>> >> >>

(***************************************************************************)
(* schedule.py: simplify_periods, a stable sort on the start of a period   *)
(***************************************************************************)
RECURSIVE InsertByStart(_, _)
InsertByStart(s, p) ==
    IF s = <<>> THEN <<p>>
    ELSE IF Head(s)[1] <= p[1]
         THEN <<Head(s)>> \o InsertByStart(Tail(s), p)
         ELSE <<p>> \o s

RECURSIVE SortByStart(_)
SortByStart(s) ==
    IF s = <<>> THEN <<>>
    ELSE InsertByStart(SortByStart(SubSeq(s, 1, Len(s) - 1)), s[Len(s)])

simplify_periods_unsorted(ps) == ps

simplify_periods(ps) == SortByStart(ps)

(***************************************************************************)
(* schedule.py: optimize_co2, the forecast list and its sort               *)
(***************************************************************************)
OverlapsPeriod(co2, period) ==
    /\ co2.from + shift_to_forecast <= period[2]
    /\ co2.to + shift_to_forecast >= period[1]

ClipForecast_unclipped(co2, period) ==
    [from     |-> co2.from + shift_to_forecast,
     to       |-> co2.to + shift_to_forecast,
     forecast |-> co2.intensity]

ClipForecast(co2, period) ==
    [from     |-> Max(co2.from + shift_to_forecast, period[1]),
     to       |-> Min(co2.to + shift_to_forecast, period[2]),
     forecast |-> co2.intensity]

\* the inner `for period_from, period_to in periods` of the comprehension
RECURSIVE ForecastsOfMeasure(_, _)
ForecastsOfMeasure(co2, ps) ==
    IF ps = <<>> THEN <<>>
    ELSE (IF OverlapsPeriod(co2, Head(ps))
          THEN <<ClipForecast(co2, Head(ps))>>
          ELSE <<>>) \o ForecastsOfMeasure(co2, Tail(ps))

\* the outer `for co2 in co2_measures`
RECURSIVE co2_forecasts(_, _)
co2_forecasts(measures, ps) ==
    IF measures = <<>> THEN <<>>
    ELSE ForecastsOfMeasure(Head(measures), ps) \o co2_forecasts(Tail(measures), ps)

RECURSIVE InsertByForecast(_, _)
InsertByForecast(s, x) ==
    IF s = <<>> THEN <<x>>
    ELSE IF Head(s).forecast <= x.forecast
         THEN <<Head(s)>> \o InsertByForecast(Tail(s), x)
         ELSE <<x>> \o s

RECURSIVE SortByForecast(_)
SortByForecast(s) ==
    IF s = <<>> THEN <<>>
    ELSE InsertByForecast(SortByForecast(SubSeq(s, 1, Len(s) - 1)), s[Len(s)])

sorted_forecasts_unsorted(forecasts) == forecasts

sorted_forecasts(forecasts) == SortByForecast(forecasts)

\* the period appended by one iteration of the loop
TakenPeriod_whole(co2, remaining) == <<co2.from, co2.to>>

TakenPeriod(co2, remaining) ==
    IF duration(<<co2.from, co2.to>>) < remaining
    THEN <<co2.from, co2.to>>
    ELSE <<co2.from, co2.from + remaining>>

(***************************************************************************)
(* schedule.py: the guards of schedule                                     *)
(***************************************************************************)
ShortCircuit_strict(plug, ready, charge) == ready - plug < charge

ShortCircuit_flipped(plug, ready, charge) == charge <= ready - plug

ShortCircuit(plug, ready, charge) == ready - plug <= charge

OffPeakSuffices(charge, off_peak_duration) == charge <= off_peak_duration

CombinedPeriods_peak_only(off_peak, peak_part) == peak_part

CombinedPeriods(off_peak, peak_part) == off_peak \o peak_part

(***************************************************************************)
(* The forecast series handed over by load_co2_measures: records on whole  *)
(* minutes (the timestamps are parsed with "%Y-%m-%dT%H:%MZ"), from < to.  *)
(* The series span the two days in which a charge window can lie once they *)
(* are shifted by a week.                                                  *)
(***************************************************************************)
HorizonMinutes == 2 * MinutesPerDay

Patterns == {"up", "down", "alt"}

Layouts == {"tile", "overlap", "gaps"}

RecordCount(len) == (HorizonMinutes + len - 1) \div len

Intensity(pat, k, n) ==
    IF pat = "up" THEN k
    ELSE IF pat = "down" THEN n + 1 - k
    ELSE 1 + (k % 2)

Record(len, layout, pat, k, n) ==
    [from      |-> (k - 1) * len * SecPerMin,
     to        |-> ((k - 1) * len + (IF layout = "overlap" THEN len + 1 ELSE len))
                   * SecPerMin,
     intensity |-> Intensity(pat, k, n)]

Series(len, layout, pat) ==
    LET n == RecordCount(len)
    IN  IF layout = "gaps"
        THEN [j \in 1 .. ((n + 1) \div 2) |-> Record(len, layout, pat, 2 * j - 1, n)]
        ELSE [k \in 1 .. n |-> Record(len, layout, pat, k, n)]

ForecastSeries ==
    {<<>>} \cup {Series(len, layout, pat) :
                    len \in 1 .. MaxRecLen, layout \in Layouts, pat \in Patterns}

PlugInTimes ==
    {DaysPerWeek * DayTicks + m * SecPerMin + s :
        m \in WallClock, s \in 0 .. (SecPerMin - 1)}

VARIABLES
    plug_in_datetime,      \* schedule: datetime.fromisoformat(plug_in_time)
    ready_by,              \* schedule: "HH:MM" argument
    charge_time,           \* schedule: timedelta(minutes=charge_time)
    off_peak_start,        \* schedule: "HH:MM" argument
    off_peak_end,          \* schedule: "HH:MM" argument
    co2_measures,          \* load_co2_measures()
    ready_by_datetime,     \* schedule: local
    off_peak_periods,      \* schedule: local
    peak_periods,          \* schedule: local
    branch,                \* which call of optimize_co2 schedule made
    periods,               \* optimize_co2: argument
    opt_charge_time,       \* optimize_co2: argument charge_time
    sorted_co2_forecasts,  \* optimize_co2: local
    next_index,            \* optimize_co2: position of the for loop
    remaining_charge_timedelta, \* optimize_co2: local
    charging_periods,      \* optimize_co2: local (before simplify_periods)
    optimized,             \* optimize_co2: returned list
    unsorted_schedule,     \* schedule: charging_periods before simplify_periods
    result,                \* schedule: returned list
    pc

vars == <<plug_in_datetime, ready_by, charge_time, off_peak_start, off_peak_end,
          co2_measures, ready_by_datetime, off_peak_periods, peak_periods, branch,
          periods, opt_charge_time, sorted_co2_forecasts, next_index,
          remaining_charge_timedelta, charging_periods, optimized,
          unsorted_schedule, result, pc>>

inputs == <<plug_in_datetime, ready_by, charge_time, off_peak_start, off_peak_end,
            co2_measures>>

sched_locals == <<ready_by_datetime, off_peak_periods, peak_periods, branch>>

opt_args == <<periods, opt_charge_time>>

opt_locals == <<sorted_co2_forecasts, next_index, remaining_charge_timedelta,
                charging_periods>>

Init ==
    /\ plug_in_datetime \in PlugInTimes
    /\ ready_by \in WallClock
    /\ charge_time \in {MinutesDelta(m) : m \in 0 .. MinutesPerDay}
    /\ off_peak_start \in WallClock
    /\ off_peak_end \in WallClock
    /\ co2_measures \in ForecastSeries
    /\ ready_by_datetime = 0
    /\ off_peak_periods = <<>>
    /\ peak_periods = <<>>
    /\ branch = "none"
    /\ periods = <<>>
    /\ opt_charge_time = 0
    /\ sorted_co2_forecasts = <<>>
    /\ next_index = 1
    /\ remaining_charge_timedelta = 0
    /\ charging_periods = <<>>
    /\ optimized = <<>>
    /\ unsorted_schedule = <<>>
    /\ result = <<>>
    /\ pc = "schedule"

\* schedule, lines 23-28: the deadline and the short circuit
ScheduleShortCircuit ==
    /\ pc = "schedule"
    /\ LET ready == next_datetime_with_time(plug_in_datetime, ready_by)
       IN  /\ ShortCircuit(plug_in_datetime, ready, charge_time)
           /\ ready_by_datetime' = ready
           /\ unsorted_schedule' = << <<plug_in_datetime, ready>> >>
           /\ result' = << <<plug_in_datetime, ready>> >>
    /\ branch' = "short_circuit"
    /\ pc' = "done"
    /\ UNCHANGED <<inputs, off_peak_periods, peak_periods, opt_args, opt_locals,
                   optimized>>

\* schedule, lines 23-32: past the short circuit, the window is partitioned
SchedulePartition ==
    /\ pc = "schedule"
    /\ LET ready == next_datetime_with_time(plug_in_datetime, ready_by)
           parts == off_peak_and_peak_periods(plug_in_datetime, ready,
                                              off_peak_start, off_peak_end)
       IN  /\ ~ShortCircuit(plug_in_datetime, ready, charge_time)
           /\ ready_by_datetime' = ready
           /\ off_peak_periods' = parts[1]
           /\ peak_periods' = parts[2]
    /\ pc' = "partitioned"
    /\ UNCHANGED <<inputs, branch, opt_args, opt_locals, optimized,
                   unsorted_schedule, result>>

\* schedule, lines 38-43: the off-peak periods alone cover the charge
ScheduleOffPeakOnly ==
    /\ pc = "partitioned"
    /\ OffPeakSuffices(charge_time, total_duration(off_peak_periods))
    /\ branch' = "off_peak"
    /\ periods' = off_peak_periods
    /\ opt_charge_time' = charge_time
    /\ pc' = "optimize_co2"
    /\ UNCHANGED <<inputs, ready_by_datetime, off_peak_periods, peak_periods,
                   opt_locals, optimized, unsorted_schedule, result>>

\* schedule, lines 44-52: all off-peak periods, the rest optimized over peak
SchedulePeak ==
    /\ pc = "partitioned"
    /\ ~OffPeakSuffices(charge_time, total_duration(off_peak_periods))
    /\ branch' = "peak"
    /\ periods' = peak_periods
    /\ opt_charge_time' = charge_time - total_duration(off_peak_periods)
    /\ pc' = "optimize_co2"
    /\ UNCHANGED <<inputs, ready_by_datetime, off_peak_periods, peak_periods,
                   opt_locals, optimized, unsorted_schedule, result>>

\* optimize_co2, lines 123-124
OptimizeReturnPeriods ==
    /\ pc = "optimize_co2"
    /\ total_duration(periods) <= opt_charge_time
    /\ optimized' = periods
    /\ pc' = "optimized"
    /\ UNCHANGED <<inputs, sched_locals, opt_args, opt_locals, unsorted_schedule,
                   result>>

\* optimize_co2, lines 126-142
OptimizeAlign ==
    /\ pc = "optimize_co2"
    /\ ~(total_duration(periods) <= opt_charge_time)
    /\ sorted_co2_forecasts' = sorted_forecasts(co2_forecasts(co2_measures, periods))
    /\ remaining_charge_timedelta' = opt_charge_time
    /\ charging_periods' = <<>>
    /\ next_index' = 1
    /\ pc' = "loop"
    /\ UNCHANGED <<inputs, sched_locals, opt_args, optimized, unsorted_schedule,
                   result>>

\* optimize_co2, lines 143-155: one iteration of the for loop
OptimizeTake ==
    /\ pc = "loop"
    /\ next_index <= Len(sorted_co2_forecasts)
    /\ ~(remaining_charge_timedelta <= null_timedelta)
    /\ LET co2 == sorted_co2_forecasts[next_index]
       IN  /\ charging_periods' =
                 Append(charging_periods, TakenPeriod(co2, remaining_charge_timedelta))
           /\ remaining_charge_timedelta' =
                 remaining_charge_timedelta - duration(<<co2.from, co2.to>>)
    /\ next_index' = next_index + 1
    /\ UNCHANGED <<inputs, sched_locals, opt_args, sorted_co2_forecasts, optimized,
                   unsorted_schedule, result, pc>>

\* optimize_co2, lines 143-145 and 157: the loop ends (exhausted or break)
OptimizeReturnSorted ==
    /\ pc = "loop"
    /\ \/ next_index > Len(sorted_co2_forecasts)
       \/ remaining_charge_timedelta <= null_timedelta
    /\ optimized' = simplify_periods(charging_periods)
    /\ pc' = "optimized"
    /\ UNCHANGED <<inputs, sched_locals, opt_args, opt_locals, unsorted_schedule,
                   result>>

\* schedule, lines 39-55: the list is assembled and sorted
ScheduleReturn ==
    /\ pc = "optimized"
    /\ branch \in {"off_peak", "peak"}
    /\ LET assembled == IF branch = "off_peak"
                        THEN optimized
                        ELSE CombinedPeriods(off_peak_periods, optimized)
       IN  /\ unsorted_schedule' = assembled
           /\ result' = simplify_periods(assembled)
    /\ pc' = "done"
    /\ UNCHANGED <<inputs, sched_locals, opt_args, opt_locals, optimized>>

Next ==
    \/ ScheduleShortCircuit
    \/ SchedulePartition
    \/ ScheduleOffPeakOnly
    \/ SchedulePeak
    \/ OptimizeReturnPeriods
    \/ OptimizeAlign
    \/ OptimizeTake
    \/ OptimizeReturnSorted
    \/ ScheduleReturn

Spec == Init /\ [][Next]_vars

(***************************************************************************)
(* optimize_co2 called on its own, with arbitrary candidate periods,       *)
(* charge time and forecast records.                                       *)
(***************************************************************************)
DirectTicks == 0 .. (MinutesPerDay + 1)

DirectMinutes == 0 .. ((MinutesPerDay + SecPerMin) \div SecPerMin)

DirectPeriods ==
    {<<shift_to_forecast + ab[1], shift_to_forecast + ab[2]>> :
        ab \in {tt \in DirectTicks \X DirectTicks : tt[1] < tt[2]}}

DirectPeriodLists ==
    {<<>>} \cup {<<p>> : p \in DirectPeriods}
           \cup {<<p, q>> : p \in DirectPeriods, q \in DirectPeriods}

DirectRecords ==
    {[from |-> ab[1] * SecPerMin, to |-> ab[2] * SecPerMin, intensity |-> x] :
        ab \in {mn \in DirectMinutes \X DirectMinutes : mn[1] < mn[2]},
        x \in {1, 2}}

DirectMeasures ==
    {<<>>} \cup {<<r>> : r \in DirectRecords}
           \cup {<<r, t>> : r \in DirectRecords, t \in DirectRecords}

InitDirect ==
    /\ periods \in DirectPeriodLists
    /\ opt_charge_time \in DirectTicks
    /\ co2_measures \in DirectMeasures
    /\ plug_in_datetime = shift_to_forecast
    /\ ready_by = 0
    /\ charge_time = 0
    /\ off_peak_start = 0
    /\ off_peak_end = 0
    /\ ready_by_datetime = 0
    /\ off_peak_periods = <<>>
    /\ peak_periods = <<>>
    /\ branch = "direct"
    /\ sorted_co2_forecasts = <<>>
    /\ next_index = 1
    /\ remaining_charge_timedelta = 0
    /\ charging_periods = <<>>
    /\ optimized = <<>>
    /\ unsorted_schedule = <<>>
    /\ result = <<>>
    /\ pc = "optimize_co2"

\* the caller receives the list optimize_co2 returned
DirectReturn ==
    /\ pc = "optimized"
    /\ branch = "direct"
    /\ result' = optimized
    /\ pc' = "done"
    /\ UNCHANGED <<inputs, sched_locals, opt_args, opt_locals, optimized,
                   unsorted_schedule>>

NextDirect ==
    \/ OptimizeReturnPeriods
    \/ OptimizeAlign
    \/ OptimizeTake
    \/ OptimizeReturnSorted
    \/ DirectReturn

SpecDirect == InitDirect /\ [][NextDirect]_vars

(***************************************************************************)
(* Properties                                                              *)
(***************************************************************************)
Window == ready_by_datetime - plug_in_datetime

PastShortCircuit == branch \in {"off_peak", "peak"}

\* the optimize_co2 call went through the forecast loop (no early return)
Greedy == total_duration(periods) > opt_charge_time

Inside(p, q) == q[1] <= p[1] /\ p[2] <= q[2]

Intersect(p, q) == p[1] < q[2] /\ q[1] < p[2]

\* instant t lies in the one-week-shifted record co2, taken half-open
InShifted(t, co2) ==
    co2.from + shift_to_forecast <= t /\ t < co2.to + shift_to_forecast

\* the shifted records cover the whole of [plug-in, deadline)
ForecastCoversWindow ==
    \A t \in plug_in_datetime .. (ready_by_datetime - 1) :
        \E k \in DOMAIN co2_measures : InShifted(t, co2_measures[k])

ForecastNonOverlapping ==
    \A j, k \in DOMAIN co2_measures :
        j # k => ~Intersect(<<co2_measures[j].from, co2_measures[j].to>>,
                            <<co2_measures[k].from, co2_measures[k].to>>)

\* C1: the total duration of the schedule is at most the charge time, and is
\* exactly the charge time when the window is at least as long as the charge
\* time and the shifted forecast records cover it without overlapping.
C1_ScheduledDuration ==
    pc = "done" =>
        /\ total_duration(result) <= charge_time
        /\ (/\ Window >= charge_time
            /\ ForecastCoversWindow
            /\ ForecastNonOverlapping)
           => total_duration(result) = charge_time

C1_Witness ==
    /\ pc = "done"
    /\ branch = "peak"
    /\ Len(charging_periods) >= 2
    /\ off_peak_periods # <<>>
    /\ ForecastCoversWindow
    /\ ForecastNonOverlapping
    /\ plug_in_datetime % SecPerMin # 0
    /\ total_duration(result) = charge_time

\* C2: the off-peak and peak periods of the partition are pairwise
\* non-overlapping, within each list and across the two lists, and their
\* union is exactly [plug-in, ready-by).
C2_Partition ==
    pc = "partitioned" =>
        LET all == off_peak_periods \o peak_periods
        IN  /\ \A j, k \in DOMAIN all : j # k => ~Intersect(all[j], all[k])
            /\ \A k \in DOMAIN all :
                   Inside(all[k], <<plug_in_datetime, ready_by_datetime>>)
            /\ \A t \in plug_in_datetime .. (ready_by_datetime - 1) :
                   \E k \in DOMAIN all : all[k][1] <= t /\ t < all[k][2]

\* wall-clock time of an instant: minute of the day and second of the minute
MinuteOfDay(t) == (t % DayTicks) \div SecPerMin

SecondOf(t) == t % SecPerMin

HasWallClock(t, time) == MinuteOfDay(t) = time /\ SecondOf(t) = 0

\* C3: the deadline is the earliest instant strictly after the plug-in whose
\* wall-clock time is the ready-by time: it is not the plug-in itself, it is
\* at most a day later, and no instant in between has that wall-clock time.
C3_NextOccurrence ==
    pc # "schedule" /\ branch # "direct" =>
        /\ ready_by_datetime > plug_in_datetime
        /\ ready_by_datetime <= plug_in_datetime + DayTicks
        /\ HasWallClock(ready_by_datetime, ready_by)
        /\ \A t \in (plug_in_datetime + 1) .. (ready_by_datetime - 1) :
               ~HasWallClock(t, ready_by)

\* C4: the periods returned by optimize_co2 total at most the required
\* duration, and exactly the required duration when the candidate periods
\* total at least the required duration, whatever the forecast series.
C4_AllocatedDuration ==
    pc = "optimized" =>
        /\ total_duration(optimized) <= opt_charge_time
        /\ total_duration(periods) >= opt_charge_time
           => total_duration(optimized) = opt_charge_time

\* C5: every period returned by optimize_co2 and by schedule has
\* start < end.
C5_NoDegeneratePeriod ==
    /\ pc = "optimized" => \A k \in DOMAIN optimized : optimized[k][1] < optimized[k][2]
    /\ pc = "done" => \A k \in DOMAIN result : result[k][1] < result[k][2]

\* C6: past the short circuit, if the charge time is at most the off-peak
\* duration then every scheduled period lies inside an off-peak period;
\* otherwise every off-peak period is in the schedule whole.  So the schedule
\* has time outside the off-peak periods only if all of them are scheduled.
C6_OffPeakFirst ==
    pc = "done" /\ PastShortCircuit =>
        LET AllInsideOffPeak ==
                \A k \in DOMAIN result :
                    \E j \in DOMAIN off_peak_periods :
                        Inside(result[k], off_peak_periods[j])
            AllOffPeakScheduled ==
                \A j \in DOMAIN off_peak_periods :
                    \E k \in DOMAIN result : result[k] = off_peak_periods[j]
        IN  /\ IF charge_time <= total_duration(off_peak_periods)
               THEN AllInsideOffPeak
               ELSE AllOffPeakScheduled
            /\ ~AllInsideOffPeak => AllOffPeakScheduled

C6_Witness ==
    /\ pc = "done"
    /\ branch = "peak"
    /\ Len(off_peak_periods) = 2
    /\ Len(optimized) >= 1
    /\ \E k \in DOMAIN result :
           \A j \in DOMAIN off_peak_periods : ~Inside(result[k], off_peak_periods[j])

TakenWhole(k) ==
    charging_periods[k] = <<sorted_co2_forecasts[k].from, sorted_co2_forecasts[k].to>>

\* the k-th period taken by the loop is a strict prefix of the k-th entry
TakenStrictPrefix(k) ==
    /\ charging_periods[k][1] = sorted_co2_forecasts[k].from
    /\ charging_periods[k][2] < sorted_co2_forecasts[k].to

\* the number of entries of seq equal to x
RECURSIVE Occurrences(_, _)
Occurrences(seq, x) ==
    IF seq = <<>> THEN 0
    ELSE (IF Head(seq) = x THEN 1 ELSE 0) + Occurrences(Tail(seq), x)

SameEntries(s, t) ==
    /\ Len(s) = Len(t)
    /\ \A k \in DOMAIN s : Occurrences(s, s[k]) = Occurrences(t, s[k])

\* C8: when the candidates total more than the required duration, the entries
\* the loop went through are the clipped forecast sub-intervals; if any part
\* of an entry is taken, every entry of strictly lower intensity is taken
\* whole; every taken period is the whole entry or a prefix from its start,
\* at most one is a strict prefix, and no taken entry has a higher intensity
\* than that one.
C8_GreedyOrder ==
    pc \in {"optimized", "done"} /\ Greedy =>
        LET taken == DOMAIN charging_periods
            entries == DOMAIN sorted_co2_forecasts
        IN  /\ SameEntries(sorted_co2_forecasts, co2_forecasts(co2_measures, periods))
            /\ taken \subseteq entries
            /\ \A k \in taken : \A j \in entries :
                   sorted_co2_forecasts[j].forecast < sorted_co2_forecasts[k].forecast
                   => j \in taken /\ TakenWhole(j)
            /\ \A k \in taken : TakenWhole(k) \/ TakenStrictPrefix(k)
            /\ \A j, k \in taken :
                   TakenStrictPrefix(j) /\ TakenStrictPrefix(k) => j = k
            /\ \A j, k \in taken :
                   TakenStrictPrefix(k)
                   => sorted_co2_forecasts[j].forecast <= sorted_co2_forecasts[k].forecast

C8_Witness ==
    /\ pc = "optimized"
    /\ Greedy
    /\ Len(charging_periods) = 2
    /\ Len(sorted_co2_forecasts) = 3
    /\ TakenWhole(1)
    /\ TakenStrictPrefix(2)
    /\ sorted_co2_forecasts[1].forecast < sorted_co2_forecasts[2].forecast
    /\ sorted_co2_forecasts # co2_forecasts(co2_measures, periods)

IsSortedByStart(s) ==
    \A j, k \in DOMAIN s : j < k => s[j][1] <= s[k][1]

\* the periods schedule selected, in the order it selected them
Selected ==
    IF branch = "short_circuit"
    THEN << <<plug_in_datetime, ready_by_datetime>> >>
    ELSE (IF branch = "peak" THEN off_peak_periods ELSE <<>>)
         \o (IF Greedy THEN charging_periods ELSE periods)

\* C9: the list schedule returns is sorted by start on every path, and it
\* holds the selected periods one for one: none are merged, even touching.
C9_SortedNotMerged ==
    pc = "done" /\ branch # "direct" =>
        /\ IsSortedByStart(result)
        /\ SameEntries(result, Selected)

C9_Witness ==
    /\ pc = "done"
    /\ branch = "peak"
    /\ result # Selected
    /\ Len(result) >= 3
    /\ \E k \in 1 .. (Len(result) - 1) : result[k][2] = result[k + 1][1]

DoubleClassified ==
    /\ off_peak_periods = << <<plug_in_datetime, ready_by_datetime>> >>
    /\ peak_periods = off_peak_periods

\* C10: when the partition inside schedule returns the same single period
\* (plug-in, deadline) as off-peak and as peak, schedule takes the off-peak
\* only branch: the peak list is not handed to optimize_co2 and the schedule
\* lies in the window without exceeding the charge time.
C10_DoubleClassifiedHarmless ==
    pc \in {"optimize_co2", "loop", "optimized", "done"} /\ PastShortCircuit
        /\ DoubleClassified =>
        /\ branch = "off_peak"
        /\ charge_time <= total_duration(off_peak_periods)
        /\ periods = off_peak_periods
        /\ opt_charge_time = charge_time
        /\ pc = "done" => total_duration(result) <= Window

C10_Witness ==
    /\ pc = "done"
    /\ DoubleClassified
    /\ branch = "off_peak"
    /\ Len(result) >= 2

====
